---------------------------- MODULE Spec2Model ----------------------------
(***************************************************************************)
(* Model of mrpack-distributor's `run` command (src/src/main.rs, main).    *)
(*                                                                         *)
(* main is one straight-line async function: every `return Err(..)` and    *)
(* every `?` leaves it at once with a non-zero exit, and the only          *)
(* statement that removes the scratch directory is the trailing            *)
(* util::clean_up call.  Each action below is one statement group of main, *)
(* in source order; pc is the position in main.                            *)
(*                                                                         *)
(* Strings are sequences of atoms; str::replace and format! act on them    *)
(* atom by atom.                                                           *)
(***************************************************************************)
EXTENDS Naturals, Sequences, FiniteSets, TLC

(***************************************************************************)
(* Bounds of the model.                                                    *)
(***************************************************************************)
\* Largest number of root commits `git rev-list --max-parents=0 HEAD` prints.
MaxRoots == 2
\* Number of distinct release ids the hosting API may answer with.
MaxReleaseId == 1

(***************************************************************************)
(* Option<T>                                                               *)
(***************************************************************************)
\* None of an Option whose values have the shape of d.
NoneOf(d) == [some |-> FALSE, val |-> d]
Some(v) == [some |-> TRUE, val |-> v]
\* Option<String>, Option<bool>, Option<ReleaseResponse>
NoString == NoneOf(<<>>)
NoBool == NoneOf(FALSE)
NoRelease == NoneOf([id |-> 0, tag_name |-> <<>>])

(***************************************************************************)
(* Input values.                                                           *)
(***************************************************************************)
\* The four optional loader fields of the descriptor's [versions] table.
LoaderFields == {"quilt", "fabric", "forge", "liteloader"}

\* version_name_format values of mrpack.toml.
Formats ==
    { <<"%project_name%", " ", "%project_version%", "+", "%loader%", "-", "%mc_version%">>,
      <<"Release ", "%project_version%">> }

\* The version stored in pack.toml.
StoredVersions == { <<"1.2.0">> }

\* --version values of the command line.
OverrideVersions == { <<"2.0.0">>, <<"%mc_version%">> }

\* Option<bool> staging of [modrinth].
StagingFlags == { NoBool, Some(FALSE), Some(TRUE) }

\* HTTP statuses the content platform may answer the create-version request with.
Statuses == {200, 201, 400, 500}

\* Tags the hosting platform may report for the latest release.
ReleaseTags == { <<"1.1.0">> }

\* Commit hashes.
Hashes == <<"c1", "c2", "c3", "c4">>

RECURSIVE GitOutputsOf(_)
\* stdout of `git rev-list --max-parents=0 HEAD` with n root commits.
GitOutputsOf(n) ==
    IF n = 0 THEN <<>>
    ELSE GitOutputsOf(n - 1) \o <<Hashes[n], "\n">>

GitOutputs == { GitOutputsOf(n) : n \in 0..MaxRoots }

ReleaseIds == 1..MaxReleaseId

(***************************************************************************)
(* Pure helpers.                                                           *)
(***************************************************************************)
RECURSIVE Replace(_, _, _)
\* str::replace(from, to)
Replace(s, from, to) ==
    IF s = <<>> THEN <<>>
    ELSE (IF Head(s) = from THEN to ELSE <<Head(s)>>) \o Replace(Tail(s), from, to)

\* main.rs:126-136, `loader_opt`: the first present field in the fixed order
\* quilt, fabric, forge, liteloader.
LoaderOpt(versions) ==
    IF "quilt" \in versions.loaders THEN Some(<<"Quilt">>)
    ELSE IF "fabric" \in versions.loaders THEN Some(<<"Fabric">>)
    ELSE IF "forge" \in versions.loaders THEN Some(<<"Forge">>)
    ELSE IF "liteloader" \in versions.loaders THEN Some(<<"LiteLoader">>)
    ELSE NoString

\* main.rs:143-147, `version_name`: four replacements applied one after another.
VersionName(format, pack, ldr) ==
    Replace(
      Replace(
        Replace(
          Replace(format, "%project_name%", pack.name),
          "%project_version%", pack.version),
        "%mc_version%", pack.versions.minecraft),
      "%loader%", ldr)

\* main.rs:90-91 and 101: the descriptor with its version replaced.
WithVersion(pack, ver) == [pack EXCEPT !.version = ver]

\* main.rs:163, output_string.replace("\n", "")
StripNewlines(out) == Replace(out, "\n", <<>>)

\* CompareFirst with the prior release's tag dropped: always the first commit.
CompareFirst_AlwaysFirstCommit(latest, first) == first

\* main.rs:193-196, `compare_first`
CompareFirst(latest, first) ==
    IF latest.some THEN latest.val.tag_name ELSE first

\* main.rs:199-204, `full_changelog`
FullChangelog(cfg, base) ==
    <<"https://github.com/">> \o cfg.github.repo_owner \o <<"/">>
        \o cfg.github.repo_name \o <<"/compare/">> \o base \o <<"..HEAD">>

\* main.rs:206, `changelog_markdown`
ChangelogMarkdown(full) == <<"[Full Changelog](">> \o full \o <<")">>

\* main.rs:221-225, `new_release_req_body`
CreateReleaseRequest(pack, vname, changelog) ==
    [tag_name |-> pack.version, name |-> Some(vname), body |-> Some(changelog)]

\* main.rs:294, loader.to_string().to_ascii_lowercase()
ToAsciiLowercase(s) ==
    CASE s = <<"Quilt">> -> <<"quilt">>
      [] s = <<"Fabric">> -> <<"fabric">>
      [] s = <<"Forge">> -> <<"forge">>
      [] s = <<"LiteLoader">> -> <<"liteloader">>
      [] OTHER -> s

\* main.rs:287-300, `modrinth_req`
VersionRequest(pack, vname, changelog, ldr, mcfg, out) ==
    [name |-> vname,
     version_number |-> pack.version,
     changelog |-> Some(changelog),
     game_versions |-> <<pack.versions.minecraft>>,
     loaders |-> <<ToAsciiLowercase(ldr)>>,
     project_id |-> mcfg.project_id,
     primary_file |-> out.file_name]

\* KnossosUrl with the staging flag ignored.
KnossosUrl_AlwaysProduction(staging) == "https://modrinth.com"

\* main.rs:322-328, `knossos_url`
KnossosUrl(staging) ==
    IF staging.some
    THEN (IF staging.val THEN "https://staging.modrinth.com" ELSE "https://modrinth.com")
    ELSE "https://modrinth.com"

\* LabrinthUrl with the None arm taking the staging API.
LabrinthUrl_NoneIsStaging(staging) ==
    IF staging.some /\ ~staging.val
    THEN "https://api.modrinth.com/v2"
    ELSE "https://staging-api.modrinth.com/v2"

\* main.rs:330-336, `labrinth_url`
LabrinthUrl(staging) ==
    IF staging.some
    THEN (IF staging.val THEN "https://staging-api.modrinth.com/v2"
                         ELSE "https://api.modrinth.com/v2")
    ELSE "https://api.modrinth.com/v2"

\* main.rs:347, req.status().is_success()
IsSuccess(status) == status >= 200 /\ status <= 299

(***************************************************************************)
(* State.                                                                  *)
(***************************************************************************)
VARIABLES
    pc,                 \* position in main
    exit_code,          \* {} while running, then {0} (Ok(())) or {1} (Err)
    log,                \* the external operations performed so far, in order
    packwiz_installed,  \* the environment's PATH holds a packwiz executable
    discord,            \* Commands::Run { discord, .. }
    version,            \* Commands::Run { version, .. } : Option<String>
    config_file,        \* contents of mrpack.toml, bound by main.rs:63-76
    pack_toml,          \* contents of the descriptor pack.toml on disk
    pack_file,          \* the descriptor main holds, bound by main.rs:78-81
    tmp_exists,         \* the scratch directory exists
    tmp_pack,           \* version of the descriptor main wrote into the scratch directory
    export_status,      \* exit status of `packwiz mr export`
    out_present,        \* the scratch directory holds a matching .mrpack file
    loader,
    version_name,
    mrpack_file_contents,
    first_commit,
    latest_release,     \* Option<ReleaseResponse>
    compare_first,
    changelog_markdown,
    github_token,       \* Option: Some once GITHUB_TOKEN was read and found
    new_release_response, \* Result<ReleaseResponse, _>
    modrinth_token,     \* Option: Some once MODRINTH_TOKEN was read and found
    status,             \* req.status() of the create-version response
    slug,               \* modrinth_project.slug
    url,                \* Option: Some once WEBHOOK_URL was read and found
    release_posts,      \* create-release requests sent
    asset_posts,        \* asset-upload requests sent
    version_posts,      \* create-version requests sent
    project_gets,       \* get-project requests sent
    webhook_posts       \* webhook executions sent

ctl == <<pc, exit_code, log>>
inputs == <<packwiz_installed, discord, version, config_file, pack_toml>>
scratch == <<tmp_exists, tmp_pack, export_status, out_present>>
build == <<loader, version_name, mrpack_file_contents>>
chlog == <<first_commit, latest_release, compare_first, changelog_markdown>>
publish == <<github_token, new_release_response, modrinth_token, status, slug, url>>
net == <<release_posts, asset_posts, version_posts, project_gets, webhook_posts>>
vars == <<ctl, inputs, pack_file, scratch, build, chlog, publish, net>>

\* The file get_output_file reports (pack.rs).
OutputFileInfo == [file_name |-> <<"pack.mrpack">>, file_path |-> <<"tmp/", "pack.mrpack">>]
\* The bytes of that file.
FileBytes == <<"PK">>

\* Send with one more attempt of the same request.
Send_Twice(sent, request) == Append(Append(sent, request), request)

\* reqwest's send().await (main.rs:239, 271, 342, 367) and webhook.execute
\* (main.rs:419): the request goes out once.
Send(sent, request) == Append(sent, request)

Terminal == pc \in {"Done", "Failed"}

\* The next statement is reached; op was performed.
Goto(next, op) ==
    /\ pc' = next
    /\ log' = Append(log, op)
    /\ exit_code' = exit_code

\* `return Err(..)` or a failing `?`: main is left at once, the process exits non-zero.
ReturnErr(op) ==
    /\ pc' = "Failed"
    /\ log' = Append(log, op)
    /\ exit_code' = {1}

Init ==
    /\ pc = "which"
    /\ exit_code = {}
    /\ log = <<>>
    /\ packwiz_installed \in BOOLEAN
    /\ discord \in BOOLEAN
    /\ version \in {NoString} \cup {Some(v) : v \in OverrideVersions}
    /\ config_file \in
         [version_name_format : Formats,
          github : {[repo_owner |-> <<"acme">>, repo_name |-> <<"pack">>]},
          modrinth : [project_id : {<<"xyz123">>}, staging : StagingFlags],
          discord : BOOLEAN]
    /\ pack_toml \in
         [name : {<<"Pack">>},
          version : StoredVersions,
          versions : [minecraft : {<<"1.20.1">>}, loaders : SUBSET LoaderFields]]
    /\ pack_file = [name |-> <<>>, version |-> <<>>,
                    versions |-> [minecraft |-> <<>>, loaders |-> {}]]
    /\ tmp_exists = FALSE
    /\ tmp_pack = NoString
    /\ export_status = 0
    /\ out_present = FALSE
    /\ loader = <<>>
    /\ version_name = <<>>
    /\ mrpack_file_contents = <<>>
    /\ first_commit = <<>>
    /\ latest_release = NoRelease
    /\ compare_first = <<>>
    /\ changelog_markdown = <<>>
    /\ github_token = NoString
    /\ new_release_response = [ok |-> FALSE, val |-> NoRelease.val]
    /\ modrinth_token = NoString
    /\ url = NoString
    /\ status = 0
    /\ slug = <<>>
    /\ release_posts = <<>>
    /\ asset_posts = <<>>
    /\ version_posts = <<>>
    /\ project_gets = <<>>
    /\ webhook_posts = <<>>

(***************************************************************************)
(* Start-up: main.rs:52-86                                                 *)
(***************************************************************************)
\* main.rs:52-55, which::which("packwiz")
\* AfterWhich with the result of the lookup ignored.
AfterWhich_Unchecked(found) == "config"

\* main.rs:52-55: `if which("packwiz").is_err() { return Err(..) }`.
AfterWhich(found) == IF found THEN "config" ELSE "Failed"

Which ==
    /\ pc = "which"
    /\ IF AfterWhich(packwiz_installed) = "Failed"
       THEN ReturnErr("which")
       ELSE Goto(AfterWhich(packwiz_installed), "which")
    /\ UNCHANGED <<inputs, pack_file, scratch, build, chlog, publish, net>>

\* main.rs:59-76: mrpack.toml must exist, be readable and parse.
LoadConfig ==
    /\ pc = "config"
    /\ \E exists \in BOOLEAN, parsed \in BOOLEAN :
         IF exists /\ parsed THEN Goto("pack_file", "read_config")
         ELSE IF exists THEN ReturnErr("read_config")
         ELSE ReturnErr("config_missing")
    /\ UNCHANGED <<inputs, pack_file, scratch, build, chlog, publish, net>>

\* main.rs:78-81, get_pack_file()
GetPackFile ==
    /\ pc = "pack_file"
    /\ \E ok \in BOOLEAN :
         IF ok
         THEN /\ Goto("create_temp", "get_pack_file")
              /\ pack_file' = pack_toml
         ELSE /\ ReturnErr("get_pack_file")
              /\ pack_file' = pack_file
    /\ UNCHANGED <<inputs, scratch, build, chlog, publish, net>>

\* main.rs:83-86, create_temp(): the scratch directory is created, or the run fails.
CreateTemp ==
    /\ pc = "create_temp"
    /\ \E ok \in BOOLEAN :
         IF ok
         THEN /\ Goto("override", "create_temp")
              /\ tmp_exists' = TRUE
         ELSE /\ ReturnErr("create_temp")
              /\ tmp_exists' = tmp_exists
    /\ UNCHANGED <<inputs, pack_file, tmp_pack, export_status, out_present,
                   build, chlog, publish, net>>

(***************************************************************************)
(* Version override and export: main.rs:88-124                             *)
(***************************************************************************)
\* ResolvePack without line 101 (`pack_file = new_file_contents`): the override
\* is serialized but the later statements keep the stored version.
ResolvePack_KeepStored(pack, ver) == pack

\* main.rs:88-109: the descriptor every later statement reads.
ResolvePack(pack, ver) ==
    IF ver.some THEN WithVersion(pack, ver.val) ELSE pack

\* main.rs:88-109: with Some(ver) the descriptor is re-serialized and written
\* into the scratch directory; with None nothing is done.
Override ==
    /\ pc = "override"
    /\ IF version.some
       THEN \E serialized \in BOOLEAN, written \in BOOLEAN :
              IF ~serialized
              THEN /\ ReturnErr("to_string")
                   /\ UNCHANGED <<pack_file, tmp_pack>>
              ELSE /\ pack_file' = ResolvePack(pack_file, version)
                   /\ IF written
                      THEN /\ Goto("export", "write_pack_file")
                           /\ tmp_pack' = Some(pack_file'.version)
                      ELSE /\ ReturnErr("write_pack_file")
                           /\ tmp_pack' = tmp_pack
       ELSE /\ Goto("export", "no_override")
            /\ pack_file' = ResolvePack(pack_file, version)
            /\ tmp_pack' = tmp_pack
    /\ UNCHANGED <<inputs, tmp_exists, export_status, out_present,
                   build, chlog, publish, net>>

\* main.rs:111-119: only a failure to start the subprocess is an error; the
\* exit status in the Output is dropped by `Ok(_) => ()`.
ExportResult(spawned, exit_status) == spawned

\* main.rs:111-119, `packwiz mr export` in the scratch directory.
Export ==
    /\ pc = "export"
    /\ \E spawned \in BOOLEAN, exit_status \in {0, 1}, produced \in BOOLEAN :
         IF ExportResult(spawned, exit_status)
         THEN /\ Goto("output_file", "export")
              /\ export_status' = exit_status
              /\ out_present' = produced
         ELSE /\ ReturnErr("export")
              /\ UNCHANGED <<export_status, out_present>>
    /\ UNCHANGED <<inputs, pack_file, tmp_exists, tmp_pack, build, chlog, publish, net>>

\* pack.rs, get_output_file: the .mrpack file of the scratch directory, or an error.
OutputFile(present) == IF present THEN Some(OutputFileInfo) ELSE NoneOf(OutputFileInfo)

\* main.rs:121-124
GetOutputFile ==
    /\ pc = "output_file"
    /\ IF OutputFile(out_present).some
       THEN Goto("loader", "get_output_file")
       ELSE ReturnErr("get_output_file")
    /\ UNCHANGED <<inputs, pack_file, scratch, build, chlog, publish, net>>

(***************************************************************************)
(* Loader, version name, artifact bytes: main.rs:126-154                   *)
(***************************************************************************)
\* main.rs:126-141
ResolveLoader ==
    /\ pc = "loader"
    /\ LET loader_opt == LoaderOpt(pack_file.versions) IN
         IF loader_opt.some
         THEN /\ Goto("read_mrpack", "loader")
              /\ loader' = loader_opt.val
         ELSE /\ ReturnErr("loader")
              /\ loader' = loader
    /\ UNCHANGED <<inputs, pack_file, scratch, version_name, mrpack_file_contents,
                   chlog, publish, net>>

\* main.rs:143-154
ReadMrpack ==
    /\ pc = "read_mrpack"
    /\ version_name' = VersionName(config_file.version_name_format, pack_file, loader)
    /\ \E read \in BOOLEAN :
         IF read
         THEN /\ Goto("first_commit", "read_mrpack")
              /\ mrpack_file_contents' = FileBytes
         ELSE /\ ReturnErr("read_mrpack")
              /\ mrpack_file_contents' = mrpack_file_contents
    /\ UNCHANGED <<inputs, pack_file, scratch, loader, chlog, publish, net>>

(***************************************************************************)
(* Changelog: main.rs:158-208                                              *)
(***************************************************************************)
\* main.rs:160-171: whether the git call yields a first commit or an error.
FirstCommitResult(spawned, utf8) == spawned /\ utf8

\* main.rs:160-171, `git rev-list --max-parents=0 HEAD`
FirstCommit ==
    /\ pc = "first_commit"
    /\ \E spawned \in BOOLEAN, utf8 \in BOOLEAN, out \in GitOutputs :
         IF FirstCommitResult(spawned, utf8)
         THEN /\ Goto("latest_release", "git_rev_list")
              /\ first_commit' = StripNewlines(out)
         ELSE /\ ReturnErr("git_rev_list")
              /\ first_commit' = first_commit
    /\ UNCHANGED <<inputs, pack_file, scratch, build, latest_release, compare_first,
                   changelog_markdown, publish, net>>

\* Responses to GET /releases/latest: a transport error and a body that is no
\* ReleaseResponse (a 404's body among them) both give None.  Of a parsed
\* release main reads the tag_name alone.
LatestReleaseResults ==
    {NoRelease} \cup {Some([id |-> 1, tag_name |-> t]) : t \in ReleaseTags}

\* main.rs:173-208
LatestRelease ==
    /\ pc = "latest_release"
    /\ \E res \in LatestReleaseResults :
         /\ latest_release' = res
         /\ compare_first' = CompareFirst(res, first_commit)
         /\ changelog_markdown' =
              ChangelogMarkdown(FullChangelog(config_file, compare_first'))
    /\ Goto("github_token", "get_latest_release")
    /\ UNCHANGED <<inputs, pack_file, scratch, build, first_commit, publish, net>>

(***************************************************************************)
(* Hosting release: main.rs:212-278                                        *)
(***************************************************************************)
\* main.rs:214-219, env::var("GITHUB_TOKEN")
GithubToken ==
    /\ pc = "github_token"
    /\ \E present \in BOOLEAN :
         IF present
         THEN /\ Goto("create_release", "env_GITHUB_TOKEN")
              /\ github_token' = Some(<<"ghp">>)
         ELSE /\ ReturnErr("env_GITHUB_TOKEN")
              /\ github_token' = github_token
    /\ UNCHANGED <<inputs, pack_file, scratch, build, chlog, new_release_response,
                   modrinth_token, status, slug, url, net>>

\* Outcomes of POST /releases: send() fails; the response's body is no
\* ReleaseResponse (an error status answers with such a body, or the body is
\* malformed); the release was created.
CreateReleaseOutcomes == {"transport_error", "error_status", "unparseable", "created"}

\* main.rs:239-249: which outcomes leave main with `return Err(..)`.
CreateReleaseFatal(outcome) == outcome = "transport_error"

\* main.rs:221-249
CreateRelease ==
    /\ pc = "create_release"
    /\ release_posts' =
         Send(release_posts, CreateReleaseRequest(pack_file, version_name, changelog_markdown))
    /\ \E outcome \in CreateReleaseOutcomes, i \in ReleaseIds :
         IF CreateReleaseFatal(outcome)
         THEN /\ ReturnErr("create_release")
              /\ new_release_response' = new_release_response
         ELSE /\ Goto("upload_asset", "create_release")
              /\ new_release_response' =
                   IF outcome = "created"
                   THEN [ok |-> TRUE, val |-> [id |-> i, tag_name |-> pack_file.version]]
                   ELSE [ok |-> FALSE, val |-> NoRelease.val]
    /\ UNCHANGED <<inputs, pack_file, scratch, build, chlog, github_token,
                   modrinth_token, status, slug, url,
                   asset_posts, version_posts, project_gets, webhook_posts>>

\* main.rs:251-278: the asset is uploaded to the created release; a failed
\* creation and a failed upload are printed and main goes on.
\* main.rs:258-264: the query of the upload URL is `?name="{}"`, the file
\* name between two literal double quotes.
AssetName(file_name) == <<"\"">> \o file_name \o <<"\"">>

\* ShouldUpload with the upload attempted whatever the response was.
ShouldUpload_Always(response) == TRUE

\* main.rs:251-252: the upload is the `Ok(release)` arm of the match.
ShouldUpload(response) == response.ok

UploadAsset ==
    /\ pc = "upload_asset"
    /\ IF ShouldUpload(new_release_response)
       THEN /\ asset_posts' =
                 Send(asset_posts,
                        [release_id |-> new_release_response.val.id,
                         name |-> AssetName(OutputFileInfo.file_name),
                         bearer |-> github_token.val,
                         body |-> mrpack_file_contents])
            /\ \E sent \in BOOLEAN :
                 Goto("modrinth_token", IF sent THEN "upload_asset" ELSE "upload_asset_failed")
       ELSE /\ asset_posts' = asset_posts
            /\ Goto("modrinth_token", "create_release_failed")
    /\ UNCHANGED <<inputs, pack_file, scratch, build, chlog, publish,
                   release_posts, version_posts, project_gets, webhook_posts>>

(***************************************************************************)
(* Content platform: main.rs:283-354                                       *)
(***************************************************************************)
\* AfterModrinthToken with the absent credential tolerated (an empty token is used).
AfterModrinthToken_Unchecked(present) == "create_version"

\* main.rs:302-307: the statement reached with MODRINTH_TOKEN present or absent.
AfterModrinthToken(present) == IF present THEN "create_version" ELSE "Failed"

\* main.rs:283-307, env::var("MODRINTH_TOKEN")
ModrinthToken ==
    /\ pc = "modrinth_token"
    /\ \E present \in BOOLEAN :
         /\ modrinth_token' = IF present THEN Some(<<"mrp">>) ELSE modrinth_token
         /\ IF AfterModrinthToken(present) = "Failed"
            THEN ReturnErr("env_MODRINTH_TOKEN")
            ELSE Goto(AfterModrinthToken(present), "env_MODRINTH_TOKEN")
    /\ UNCHANGED <<inputs, pack_file, scratch, build, chlog, github_token,
                   new_release_response, status, slug, url, net>>

\* main.rs:309-345: the multipart POST {labrinth_url}/version.  The file part's
\* mime_str("application/zip") and the serde_json::to_string of the request
\* cannot fail.
CreateVersion ==
    /\ pc = "create_version"
    /\ version_posts' =
         Send(version_posts,
                [url |-> <<LabrinthUrl(config_file.modrinth.staging), "/version">>,
                 data |-> VersionRequest(pack_file, version_name, changelog_markdown,
                                         loader, config_file.modrinth, OutputFileInfo),
                 file_name |-> OutputFileInfo.file_name,
                 file |-> mrpack_file_contents])
    /\ \E sent \in BOOLEAN, st \in Statuses :
         IF sent
         THEN /\ Goto("check_status", "create_version")
              /\ status' = st
         ELSE /\ ReturnErr("create_version")
              /\ status' = status
    /\ UNCHANGED <<inputs, pack_file, scratch, build, chlog, github_token,
                   new_release_response, modrinth_token, slug, url,
                   release_posts, asset_posts, project_gets, webhook_posts>>

\* AfterStatus with a rejected upload sent again instead of returned as an error.
AfterStatus_RetryUpload(st, notify) ==
    IF IsSuccess(st)
    THEN (IF notify THEN "discord_config" ELSE "clean_up")
    ELSE "create_version"

\* AfterStatus without the `if discord` of line 356.
AfterStatus_AlwaysNotify(st, notify) ==
    IF IsSuccess(st) THEN "discord_config" ELSE "Failed"

\* AfterStatus without the is_success() check of line 347.
AfterStatus_StatusIgnored(st, notify) ==
    IF notify THEN "discord_config" ELSE "clean_up"

\* main.rs:347-356: the statement reached after the create-version response.
AfterStatus(st, notify) ==
    IF IsSuccess(st)
    THEN (IF notify THEN "discord_config" ELSE "clean_up")
    ELSE "Failed"

\* main.rs:347-356
CheckStatus ==
    /\ pc = "check_status"
    /\ IF AfterStatus(status, discord) = "Failed"
       THEN ReturnErr("version_rejected")
       ELSE Goto(AfterStatus(status, discord), "version_accepted")
    /\ UNCHANGED <<inputs, pack_file, scratch, build, chlog, publish, net>>

(***************************************************************************)
(* Discord notification: main.rs:356-424                                   *)
(***************************************************************************)
\* main.rs:357-362, config_file.discord
DiscordConfig ==
    /\ pc = "discord_config"
    /\ IF config_file.discord
       THEN Goto("get_project", "discord_config")
       ELSE ReturnErr("discord_config")
    /\ UNCHANGED <<inputs, pack_file, scratch, build, chlog, publish, net>>

\* Outcomes of GET {labrinth_url}/project/{id}
GetProjectOutcomes == {"transport_error", "unparseable", "fetched"}

\* GetProjectOk with a body that is no ProjectResponse let through.
GetProjectOk_ParseUnchecked(outcome) == outcome # "transport_error"

\* main.rs:367-381: only a sent request whose response parses is Ok.
GetProjectOk(outcome) == outcome = "fetched"

\* main.rs:364-382: the project is needed for its slug.
GetProject ==
    /\ pc = "get_project"
    /\ project_gets' =
         Send(project_gets,
                [url |-> <<LabrinthUrl(config_file.modrinth.staging), "/project/">>
                           \o config_file.modrinth.project_id])
    /\ \E outcome \in GetProjectOutcomes :
         IF GetProjectOk(outcome)
         THEN /\ Goto("webhook_url", "get_project")
              /\ slug' = IF outcome = "fetched" THEN <<"pack-slug">> ELSE slug
         ELSE /\ ReturnErr(IF outcome = "unparseable" THEN "get_project_unparseable"
                                                        ELSE "get_project")
              /\ slug' = slug
    /\ UNCHANGED <<inputs, pack_file, scratch, build, chlog, github_token,
                   new_release_response, modrinth_token, status, url,
                   release_posts, asset_posts, version_posts, webhook_posts>>

\* main.rs:384-398, `description`: the two links and the changelog.
Description(cfg, knossos_url, project_slug, changelog) ==
    [github_link |-> <<"https://github.com/">> \o cfg.github.repo_owner \o <<"/">>
                        \o cfg.github.repo_name \o <<"/releases/latest">>,
     modrinth_link |-> <<knossos_url, "/modpack/">> \o project_slug,
     changelog |-> changelog]

\* main.rs:384-415, env::var("WEBHOOK_URL") after the embed is composed
WebhookUrl ==
    /\ pc = "webhook_url"
    /\ \E present \in BOOLEAN :
         IF present
         THEN /\ Goto("webhook_from_url", "env_WEBHOOK_URL")
              /\ url' = Some(<<"https://discord.com/api/webhooks/1/t">>)
         ELSE /\ ReturnErr("env_WEBHOOK_URL")
              /\ url' = url
    /\ UNCHANGED <<inputs, pack_file, scratch, build, chlog, github_token,
                   new_release_response, modrinth_token, status, slug, net>>

\* main.rs:417, Webhook::from_url(..).await?
WebhookFromUrl ==
    /\ pc = "webhook_from_url"
    /\ \E ok \in BOOLEAN :
         IF ok THEN Goto("webhook_execute", "webhook_from_url")
         ELSE ReturnErr("webhook_from_url")
    /\ UNCHANGED <<inputs, pack_file, scratch, build, chlog, publish, net>>

\* main.rs:419-422, webhook.execute(..).await?
WebhookExecute ==
    /\ pc = "webhook_execute"
    /\ webhook_posts' =
         Send(webhook_posts,
                [title |-> version_name,
                 description |-> Description(config_file,
                                             KnossosUrl(config_file.modrinth.staging),
                                             slug, changelog_markdown)])
    /\ \E ok \in BOOLEAN :
         IF ok THEN Goto("clean_up", "webhook_execute")
         ELSE ReturnErr("webhook_execute")
    /\ UNCHANGED <<inputs, pack_file, scratch, build, chlog, publish,
                   release_posts, asset_posts, version_posts, project_gets>>

(***************************************************************************)
(* Cleanup and exit: main.rs:427-430                                       *)
(***************************************************************************)
\* util.rs, clean_up: the scratch directory is removed.
RemoveDir(exists) == FALSE

\* main.rs:427-430: the directory is removed and main returns Ok(()).
CleanUp ==
    /\ pc = "clean_up"
    /\ tmp_exists' = RemoveDir(tmp_exists)
    /\ pc' = "Done"
    /\ log' = Append(log, "clean_up")
    /\ exit_code' = {0}
    /\ UNCHANGED <<inputs, pack_file, tmp_pack, export_status, out_present,
                   build, chlog, publish, net>>

Next ==
    \/ Which
    \/ LoadConfig
    \/ GetPackFile
    \/ CreateTemp
    \/ Override
    \/ Export
    \/ GetOutputFile
    \/ ResolveLoader
    \/ ReadMrpack
    \/ FirstCommit
    \/ LatestRelease
    \/ GithubToken
    \/ CreateRelease
    \/ UploadAsset
    \/ ModrinthToken
    \/ CreateVersion
    \/ CheckStatus
    \/ DiscordConfig
    \/ GetProject
    \/ WebhookUrl
    \/ WebhookFromUrl
    \/ WebhookExecute
    \/ CleanUp

Spec == Init /\ [][Next]_vars

(***************************************************************************)
(* Reading the log.  Every action appends the step it performed; a run     *)
(* that failed did so in its last step.                                    *)
(***************************************************************************)
Attempted(op) == \E i \in 1..Len(log) : log[i] = op

FailedAt(op) == pc = "Failed" /\ Len(log) > 0 /\ log[Len(log)] = op

Succeeded(op) == Attempted(op) /\ ~FailedAt(op)

\* op1 was performed before op2.
Before(op1, op2) ==
    \E i, j \in 1..Len(log) : i < j /\ log[i] = op1 /\ log[j] = op2

(***************************************************************************)
(* C1.  Cleanup guarantee: in every run that created the scratch           *)
(* directory, whichever terminal state is reached (Done or Failed), the    *)
(* scratch directory no longer exists when the run has completed.          *)
(* main only removes the directory in its last statement, so every early   *)
(* return after create_temp leaves it behind.                              *)
(***************************************************************************)
C1_CleanupGuarantee ==
    (Terminal /\ Succeeded("create_temp")) => ~tmp_exists

(***************************************************************************)
(* C2.  Advisory isolation: a failure of the create-release step           *)
(* (transport error, error status, unparseable response) or of the         *)
(* asset-upload step does not move the run to Failed; the run goes on to   *)
(* the content-platform target.                                            *)
(* A transport error of the create-release request returns Err from main.  *)
(***************************************************************************)
C2_AdvisoryIsolation ==
    /\ ~FailedAt("create_release")
    /\ ~FailedAt("upload_asset_failed")
    /\ (Terminal /\ (Attempted("create_release_failed") \/ Attempted("upload_asset_failed")))
          => Attempted("env_MODRINTH_TOKEN")

(***************************************************************************)
(* C3.  Build failure is fatal: if the export subprocess exits non-zero or *)
(* produces no matching output file, the run ends in Failed with a         *)
(* non-zero exit, and no release, version upload or notification is sent.  *)
(* main drops the subprocess's exit status.                                *)
(***************************************************************************)
C3_BuildFailureFatal ==
    (Succeeded("export") /\ (export_status # 0 \/ ~out_present))
       => /\ pc \in {"output_file", "Failed"}
          /\ pc = "Failed" => exit_code = {1}
          /\ release_posts = <<>>
          /\ version_posts = <<>>
          /\ webhook_posts = <<>>

(***************************************************************************)
(* C4.  Loader-name resolution: for every combination of the four optional *)
(* loader fields, resolution returns the loader's name when exactly one    *)
(* field is present and fails the run when none or more than one is.       *)
(* main takes the first present field of quilt, fabric, forge, liteloader. *)
(***************************************************************************)
LoaderNameOf(field) ==
    CASE field = "quilt" -> <<"Quilt">>
      [] field = "fabric" -> <<"Fabric">>
      [] field = "forge" -> <<"Forge">>
      [] field = "liteloader" -> <<"LiteLoader">>

C4_LoaderResolution ==
    Attempted("loader") =>
       IF Cardinality(pack_toml.versions.loaders) = 1
       THEN /\ Succeeded("loader")
            /\ \E f \in pack_toml.versions.loaders : loader = LoaderNameOf(f)
       ELSE FailedAt("loader")

(***************************************************************************)
(* C5.  Version resolution: with an override V every later stage uses V    *)
(* (the value substituted for %project_version% in the version name, the   *)
(* release tag and the content-platform version_number are V, whatever     *)
(* version the descriptor stored) and the descriptor is written into the   *)
(* scratch directory before the export runs; without an override the three *)
(* are the descriptor's stored version and no descriptor is written.       *)
(***************************************************************************)
\* The version name main must compute when v is the resolved version.
C5_NameWith(v) ==
    Replace(
      Replace(
        Replace(
          Replace(config_file.version_name_format, "%project_name%", pack_toml.name),
          "%project_version%", v),
        "%mc_version%", pack_toml.versions.minecraft),
      "%loader%", loader)

\* Every later stage uses v.
C5_Uses(v) ==
    /\ Attempted("read_mrpack") => version_name = C5_NameWith(v)
    /\ \A i \in 1..Len(release_posts) :
         /\ release_posts[i].tag_name = v
         /\ release_posts[i].name = Some(C5_NameWith(v))
    /\ \A i \in 1..Len(version_posts) :
         /\ version_posts[i].data.version_number = v
         /\ version_posts[i].data.name = C5_NameWith(v)

C5_VersionResolution ==
    IF version.some
    THEN /\ C5_Uses(version.val)
         /\ Succeeded("write_pack_file") =>
              (pack_file.version = version.val /\ tmp_pack = Some(version.val))
         /\ Attempted("export") => Before("write_pack_file", "export")
    ELSE /\ C5_Uses(pack_toml.version)
         /\ tmp_pack = NoString
         /\ ~Attempted("write_pack_file")

\* A finished run with an override that differs from the stored version.
C5_Witness ==
    /\ pc = "Done"
    /\ version.some
    /\ version.val # pack_toml.version
    /\ Len(release_posts) = 1
    /\ Len(version_posts) = 1
    /\ "%project_version%" \in {config_file.version_name_format[i] :
                                  i \in 1..Len(config_file.version_name_format)}

(***************************************************************************)
(* C6.  The changelog stage never ends the run in Failed: for every        *)
(* outcome of the first-commit lookup and of the prior-release lookup the  *)
(* run proceeds to Publishing with a non-empty changelog text.             *)
(* main returns Err when git cannot be started or prints invalid UTF-8.    *)
(***************************************************************************)
C6_ChangelogNeverFatal ==
    /\ ~FailedAt("git_rev_list")
    /\ ~FailedAt("get_latest_release")
    /\ Attempted("get_latest_release") => changelog_markdown # <<>>

C8_MissingCredentialFatal ==
    (Attempted("env_MODRINTH_TOKEN") /\ ~modrinth_token.some) =>
       /\ pc = "Failed"
       /\ exit_code = {1}
       /\ version_posts = <<>>
       /\ project_gets = <<>>
       /\ webhook_posts = <<>>

\* The credential was looked up and was absent, after a created release.
C8_Witness ==
    /\ Attempted("env_MODRINTH_TOKEN")
    /\ ~modrinth_token.some
    /\ new_release_response.ok
    /\ pc = "Failed"

(***************************************************************************)
(* C9.  Notification gating: a chat notification is posted only if the     *)
(* caller requested it and the create-version request returned 2xx and the *)
(* project (slug) was fetched and parsed; a non-2xx create-version         *)
(* response means no project fetch and no notification post.               *)
(***************************************************************************)
C9_NotificationGating ==
    /\ webhook_posts # <<>> =>
         /\ discord
         /\ Succeeded("create_version")
         /\ status \in 200..299
         /\ Succeeded("get_project")
         /\ slug # <<>>
    /\ (Succeeded("create_version") /\ status \notin 200..299) =>
         /\ project_gets = <<>>
         /\ webhook_posts = <<>>

\* A notification was posted.
C9_Witness ==
    /\ webhook_posts # <<>>
    /\ pc = "Done"

(***************************************************************************)
(* C10.  Successful run: when the build, the release creation, the asset   *)
(* upload and the content-platform upload all succeed, with no override,   *)
(* no staging flag and no notification requested, the run creates exactly  *)
(* one release tagged with the descriptor's version, uploads exactly one   *)
(* content-platform version with that version number against the           *)
(* configured project on the production endpoint, posts no notification,   *)
(* removes the scratch directory and exits 0.                              *)
(***************************************************************************)
C10_AllSucceeded ==
    /\ ~version.some
    /\ ~config_file.modrinth.staging.some
    /\ ~discord
    /\ Succeeded("export") /\ export_status = 0 /\ out_present
    /\ new_release_response.ok
    /\ Attempted("upload_asset")
    /\ Succeeded("create_version") /\ status \in 200..299

C11_AdvisoryOnly ==
    FailedAt("create_release") \/ FailedAt("upload_asset_failed")
       \/ FailedAt("create_release_failed") \/ FailedAt("get_latest_release")

\* A fatal error occurred: the build failed, or the run was ended by an error
\* of a step that is not advisory.
C11_FatalOccurred ==
    \/ Succeeded("export") /\ (export_status # 0 \/ ~out_present)
    \/ pc = "Failed" /\ ~C11_AdvisoryOnly

C11_ExitClassification ==
    Terminal => (exit_code = {1} <=> C11_FatalOccurred)

(***************************************************************************)
(* C12.  Stage order.                                                      *)
(***************************************************************************)
\* The stage of the spec's state machine a step belongs to: 1 Init,
\* 2 Building, 3 ResolvingVersion, 4 GeneratingChangelog, 5 Publishing,
\* 6 CleaningUp.  The override and the descriptor rewrite are the version
\* resolver's; the `match version` that finds None does nothing.
C12_StageOf(op) ==
    CASE op \in {"which", "config_missing", "read_config", "get_pack_file",
                 "create_temp", "no_override"} -> 1
      [] op \in {"export", "get_output_file"} -> 2
      [] op \in {"to_string", "write_pack_file", "loader", "read_mrpack"} -> 3
      [] op \in {"git_rev_list", "get_latest_release"} -> 4
      [] op = "clean_up" -> 6
      [] OTHER -> 5

\* The publish target a step of Publishing belongs to: 1 hosting release,
\* 2 content platform, 3 notification; 0 for the steps of other stages.
C12_TargetOf(op) ==
    CASE op \in {"env_GITHUB_TOKEN", "create_release", "upload_asset",
                 "upload_asset_failed", "create_release_failed"} -> 1
      [] op \in {"env_MODRINTH_TOKEN", "create_version", "version_accepted",
                 "version_rejected"} -> 2
      [] op \in {"discord_config", "get_project", "get_project_unparseable",
                 "env_WEBHOOK_URL", "webhook_from_url", "webhook_execute"} -> 3
      [] OTHER -> 0

\* The place of a step in main, in source order.
C12_PlaceOf(op) ==
    CASE op = "which" -> 1
      [] op \in {"config_missing", "read_config"} -> 2
      [] op = "get_pack_file" -> 3
      [] op = "create_temp" -> 4
      [] op \in {"no_override", "to_string", "write_pack_file"} -> 5
      [] op = "export" -> 6
      [] op = "get_output_file" -> 7
      [] op = "loader" -> 8
      [] op = "read_mrpack" -> 9
      [] op = "git_rev_list" -> 10
      [] op = "get_latest_release" -> 11
      [] op = "env_GITHUB_TOKEN" -> 12
      [] op = "create_release" -> 13
      [] op \in {"upload_asset", "upload_asset_failed", "create_release_failed"} -> 14
      [] op = "env_MODRINTH_TOKEN" -> 15
      [] op = "create_version" -> 16
      [] op \in {"version_accepted", "version_rejected"} -> 17
      [] op = "discord_config" -> 18
      [] op \in {"get_project", "get_project_unparseable"} -> 19
      [] op = "env_WEBHOOK_URL" -> 20
      [] op = "webhook_from_url" -> 21
      [] op = "webhook_execute" -> 22
      [] op = "clean_up" -> 23

\* Done and Failed are terminal, Failed exits non-zero, and inside Publishing
\* the targets run in the order hosting release, content platform, notification
\* (each pair of consecutive steps is in order, and only cleanup follows them).
C12_TerminalAndTargets ==
    /\ Terminal => ~ENABLED Next
    /\ pc = "Failed" <=> exit_code = {1}
    /\ pc = "Done" <=> exit_code = {0}
    /\ pc = "Done" => log[Len(log)] = "clean_up"
    /\ \A i \in 1..(Len(log) - 1) :
         C12_TargetOf(log[i]) > 0
            => (C12_TargetOf(log[i + 1]) = 0 \/ C12_TargetOf(log[i]) <= C12_TargetOf(log[i + 1]))
    /\ \A i \in 1..(Len(log) - 1) :
         (C12_TargetOf(log[i]) > 0 /\ C12_TargetOf(log[i + 1]) = 0)
            => log[i + 1] = "clean_up"

(***************************************************************************)
(* C12 as claimed: every run visits the stages in the order Init,          *)
(* Building, ResolvingVersion, GeneratingChangelog, Publishing,            *)
(* CleaningUp, Done, performing no action of a later stage before an       *)
(* earlier stage has finished, or moves to Failed; Done and Failed are     *)
(* terminal; the publish targets run in their fixed order.                 *)
(* With an override main resolves the version and rewrites the descriptor  *)
(* (ResolvingVersion) before the export (Building) has started.            *)
(***************************************************************************)
C12_StageOrder ==
    /\ C12_TerminalAndTargets
    /\ \A i \in 1..(Len(log) - 1) :
         C12_StageOf(log[i]) <= C12_StageOf(log[i + 1])

(***************************************************************************)
(* C12 amended: every run performs its steps in source order, each at most *)
(* once: Init; then, only with an override, the version override and the   *)
(* descriptor rewrite; then Building; then the rest of ResolvingVersion    *)
(* (loader, version name); GeneratingChangelog; Publishing with its        *)
(* targets in the order hosting release, content platform, notification;   *)
(* CleaningUp; Done -- or moves to Failed from the step in which a fatal   *)
(* error occurs.  Done and Failed are terminal.                            *)
(***************************************************************************)
C12_StepOrder ==
    /\ C12_TerminalAndTargets
    /\ \A i \in 1..(Len(log) - 1) :
         /\ C12_PlaceOf(log[i]) < C12_PlaceOf(log[i + 1])
         /\ log[i] \notin {"to_string", "write_pack_file"}
               => C12_StageOf(log[i]) <= C12_StageOf(log[i + 1])

\* A finished run that rewrote the descriptor and posted a notification.
C12_Witness ==
    /\ pc = "Done"
    /\ Before("write_pack_file", "export")
    /\ Attempted("webhook_execute")

(***************************************************************************)
(* C13.  Lazy credentials: GITHUB_TOKEN is read only once the hosting-     *)
(* release target is reached (right after the changelog is generated),     *)
(* MODRINTH_TOKEN only once the content-platform target is reached (right  *)
(* after the hosting-release target has finished), and WEBHOOK_URL only in *)
(* runs where notification was requested; a run that fails before a target *)
(* is reached never reads that target's credential.                        *)
(***************************************************************************)
C13_LazyCredentials ==
    /\ \A i \in 1..Len(log) :
         /\ log[i] = "env_GITHUB_TOKEN" =>
              (i > 1 /\ log[i - 1] = "get_latest_release" /\ changelog_markdown # <<>>)
         /\ log[i] = "env_MODRINTH_TOKEN" =>
              (i > 1 /\ log[i - 1] \in {"upload_asset", "upload_asset_failed",
                                        "create_release_failed"})
         /\ log[i] = "env_WEBHOOK_URL" =>
              (i > 1 /\ log[i - 1] = "get_project" /\ discord)
    /\ github_token.some => Attempted("env_GITHUB_TOKEN")
    /\ modrinth_token.some => Attempted("env_MODRINTH_TOKEN")
    /\ url.some => Attempted("env_WEBHOOK_URL")

\* All three credentials were read and found.
C13_Witness ==
    /\ github_token.some
    /\ modrinth_token.some
    /\ url.some
    /\ discord

(***************************************************************************)
(* C14.  No retries: in every run each external operation (export          *)
(* subprocess, first-commit lookup, prior-release lookup, create-release,  *)
(* asset upload, create-version, project fetch, notification post) is      *)
(* invoked at most once, whether it succeeds or fails.                     *)
(***************************************************************************)
\* How often op was performed.
C14_Count(ops) == Cardinality({i \in 1..Len(log) : log[i] \in ops})

C14_NoRetries ==
    /\ C14_Count({"export"}) <= 1
    /\ C14_Count({"git_rev_list"}) <= 1
    /\ C14_Count({"get_latest_release"}) <= 1
    /\ C14_Count({"create_release"}) <= 1
    /\ C14_Count({"upload_asset", "upload_asset_failed"}) <= 1
    /\ C14_Count({"create_version"}) <= 1
    /\ C14_Count({"get_project", "get_project_unparseable"}) <= 1
    /\ C14_Count({"webhook_execute"}) <= 1
    /\ Len(release_posts) <= 1
    /\ Len(asset_posts) <= 1
    /\ Len(version_posts) <= 1
    /\ Len(project_gets) <= 1
    /\ Len(webhook_posts) <= 1

\* A run whose create-version request and asset upload failed, and ended there.
C14_Witness ==
    /\ FailedAt("create_version")
    /\ Attempted("upload_asset_failed")
    /\ Len(version_posts) = 1
    /\ Len(asset_posts) = 1

(***************************************************************************)
(* C15.  Notification failures are confined to the notification target:    *)
(* when notification is requested and the notification configuration       *)
(* block or the destination URL is absent, or the project-metadata         *)
(* response cannot be parsed, no notification is posted, the completed     *)
(* publishes stay, and the run is not moved to Failed: it still performs   *)
(* cleanup and finishes.                                                   *)
(* main returns Err in all three cases (lines 359, 371, 412).              *)
(***************************************************************************)
\* One of the three failures of the notification target happened.
C15_NotificationFailure ==
    \/ Attempted("discord_config") /\ ~config_file.discord
    \/ Attempted("get_project_unparseable")
    \/ Attempted("env_WEBHOOK_URL") /\ ~url.some

C15_NotificationFailuresConfined ==
    C15_NotificationFailure =>
       /\ pc # "Failed"
       /\ webhook_posts = <<>>
       /\ Len(version_posts) = 1
       /\ Terminal => (pc = "Done" /\ ~tmp_exists /\ exit_code = {0})

(***************************************************************************)
(* C16.  Tool check precedes everything: if the packaging executable is    *)
(* absent from the environment, the run fails before the config file is    *)
(* read, before the scratch directory is created, before the export        *)
(* subprocess is invoked and before any network request is made.           *)
(***************************************************************************)
\* No request of any kind has left the program.
C16_NoNetwork ==
    /\ release_posts = <<>>
    /\ asset_posts = <<>>
    /\ version_posts = <<>>
    /\ project_gets = <<>>
    /\ webhook_posts = <<>>
    /\ ~Attempted("get_latest_release")

C16_ToolCheckFirst ==
    (~packwiz_installed /\ log # <<>>) =>
       /\ pc = "Failed"
       /\ exit_code = {1}
       /\ log = <<"which">>
       /\ ~Attempted("read_config") /\ ~Attempted("config_missing")
       /\ ~Attempted("create_temp") /\ ~tmp_exists
       /\ ~Attempted("export")
       /\ C16_NoNetwork

\* The run without the executable has made its first step.
C16_Witness == ~packwiz_installed /\ log # <<>> /\ pc = "Failed"

(***************************************************************************)
(* C17.  Asset upload depends on release creation: the asset-upload        *)
(* request is sent only after the create-release call returned a response  *)
(* that parsed into a release with an id, it targets that id, and it is    *)
(* never sent in a run where release creation failed.                      *)
(***************************************************************************)
C17_UploadNeedsRelease ==
    /\ asset_posts # <<>> =>
          /\ new_release_response.ok
          /\ Succeeded("create_release")
          /\ new_release_response.val.id \in ReleaseIds
          /\ \A i \in 1..Len(asset_posts) :
                asset_posts[i].release_id = new_release_response.val.id
          /\ ~Attempted("create_release_failed")
    /\ (Attempted("env_MODRINTH_TOKEN") /\ ~new_release_response.ok) =>
          /\ asset_posts = <<>>
          /\ Attempted("create_release_failed")

\* An asset went to the release that was just created.
C17_Witness ==
    /\ asset_posts # <<>>
    /\ new_release_response.ok
    /\ Attempted("env_MODRINTH_TOKEN")

(***************************************************************************)
(* C18.  Endpoint selection: for every value of the optional staging flag  *)
(* (absent, false, true) the content-platform API base and web base are    *)
(* chosen from the same environment: both staging exactly when the flag is *)
(* true, both production when it is false or absent; the create-version    *)
(* request, the project fetch and the notification's content-platform      *)
(* link of one run never mix the two environments.                         *)
(***************************************************************************)
\* The run's configuration asks for the staging environment.
C18_Staging == config_file.modrinth.staging.some /\ config_file.modrinth.staging.val

C18_ApiBase ==
    IF C18_Staging THEN "https://staging-api.modrinth.com/v2"
                   ELSE "https://api.modrinth.com/v2"

C18_WebBase ==
    IF C18_Staging THEN "https://staging.modrinth.com" ELSE "https://modrinth.com"

C18_EndpointSelection ==
    /\ \A f \in StagingFlags :
          /\ (KnossosUrl(f) = "https://staging.modrinth.com")
                <=> (f.some /\ f.val)
          /\ (LabrinthUrl(f) = "https://staging-api.modrinth.com/v2")
                <=> (f.some /\ f.val)
          /\ KnossosUrl(f) \in {"https://staging.modrinth.com", "https://modrinth.com"}
          /\ LabrinthUrl(f) \in {"https://staging-api.modrinth.com/v2",
                                 "https://api.modrinth.com/v2"}
    /\ \A i \in 1..Len(version_posts) : version_posts[i].url[1] = C18_ApiBase
    /\ \A i \in 1..Len(project_gets) : project_gets[i].url[1] = C18_ApiBase
    /\ \A i \in 1..Len(webhook_posts) :
          webhook_posts[i].description.modrinth_link[1] = C18_WebBase

\* A staging run sent all three: version, project fetch and notification.
C18_Witness ==
    /\ C18_Staging
    /\ version_posts # <<>>
    /\ project_gets # <<>>
    /\ webhook_posts # <<>>

(***************************************************************************)
(* C19.  Cross-target consistency: in every run in which both a            *)
(* create-release request and a create-version request are sent, the       *)
(* hosting release tag equals the content-platform version_number, both    *)
(* carry the same display name and the same changelog text, and the asset  *)
(* upload and the content-platform file part carry the same file name and  *)
(* the same bytes.                                                         *)
(* The upload URL puts the file name between literal double quotes         *)
(* (main.rs:259), the multipart file part does not (main.rs:310).          *)
(***************************************************************************)
\* Release and version agree on tag, display name and changelog.
C19_SameVersion ==
    \A i \in 1..Len(release_posts), j \in 1..Len(version_posts) :
       /\ release_posts[i].tag_name = version_posts[j].data.version_number
       /\ release_posts[i].name = Some(version_posts[j].data.name)
       /\ release_posts[i].body = version_posts[j].data.changelog

\* Asset and file part agree on the bytes.
C19_SameBytes ==
    \A i \in 1..Len(asset_posts), j \in 1..Len(version_posts) :
       asset_posts[i].body = version_posts[j].file

C19_CrossTargetConsistency ==
    /\ C19_SameVersion
    /\ C19_SameBytes
    /\ \A i \in 1..Len(asset_posts), j \in 1..Len(version_posts) :
          asset_posts[i].name = version_posts[j].file_name

(***************************************************************************)
(* C20.  Late notification checks: in a run with notification requested,   *)
(* neither the notification configuration block nor the destination URL    *)
(* is examined before the content-platform create-version request has      *)
(* returned 2xx; hence every run that fails because one of them is absent  *)
(* has already uploaded the content-platform version, and the destination  *)
(* URL is examined only after the project metadata was fetched and parsed. *)
(***************************************************************************)
\* The create-version request was sent and answered with a 2xx status.
C20_VersionUploaded ==
    /\ Len(version_posts) = 1
    /\ Succeeded("create_version")
    /\ Attempted("version_accepted")
    /\ IsSuccess(status)

C20_LateNotificationChecks ==
    /\ Attempted("discord_config") =>
          /\ discord
          /\ C20_VersionUploaded
          /\ Before("version_accepted", "discord_config")
    /\ Attempted("env_WEBHOOK_URL") =>
          /\ C20_VersionUploaded
          /\ Before("discord_config", "env_WEBHOOK_URL")
          /\ Before("get_project", "env_WEBHOOK_URL")
          /\ ~Attempted("get_project_unparseable")
          /\ Len(project_gets) = 1
          /\ slug = <<"pack-slug">>
    /\ (~Attempted("discord_config")) => ~Attempted("env_WEBHOOK_URL") /\ ~url.some

\* A run failed for want of the destination URL, the version being uploaded.
C20_Witness ==
    /\ FailedAt("env_WEBHOOK_URL")
    /\ ~url.some
    /\ version_posts # <<>>

=============================================================================
